---- MODULE Spec2Model ----
(***************************************************************************)
(* A model of the Emergency-Agent repository:                              *)
(*   - the production voice agent (agent-production.py): the call handler  *)
(*     and the entrypoint of one call                    -> Spec           *)
(*   - the token HTTP API (backend-api.py)               -> SpecApi        *)
(*   - the incident persistence module (db_mssql.py)     -> SpecDb         *)
(*   - the prototype voice agent's adapters (agent-basic.py) -> SpecProto  *)
(* Strings whose content matters (caller text, text segments) are          *)
(* sequences of one-character strings.  Wall-clock values (start_time,     *)
(* duration, timestamps) are not modelled.                                 *)
(***************************************************************************)
EXTENDS Integers, Sequences, FiniteSets, TLC

VARIABLES
    \* ---- production agent: one call ----
    pc,                  \* position of entrypoint
    messages_exchanged,  \* EmergencyCallHandler.messages_exchanged
    emergency_type,      \* EmergencyCallHandler.emergency_type
    is_escalated,        \* EmergencyCallHandler.is_escalated
    events,              \* the [CALL-EVENT] records logged so far
    greeting,            \* "none", "spoken" or "failed": outcome of agent.say
    heard,               \* texts passed to on_caller_message, in order
    assistant_seen,      \* number of assistant messages delivered by the pipeline
    turns,               \* callbacks delivered by the turn loop so far
    \* ---- token HTTP API ----
    LIVEKIT_URL,         \* os.getenv("LIVEKIT_URL")
    LIVEKIT_API_KEY,     \* os.getenv("LIVEKIT_API_KEY")
    LIVEKIT_API_SECRET,  \* os.getenv("LIVEKIT_API_SECRET")
    api_state,           \* "boot", "running" or "aborted" (import-time check)
    last_request,        \* the request handled last
    last_response,       \* the response returned for it
    token_log,           \* (identity, room) pairs of the tokens issued so far
    \* ---- incident persistence module and the relational store ----
    invocations,         \* per invocation: operation, arguments, position, result
    connections,         \* per connection: uncommitted rows, last identity in scope
    Incidents,           \* committed rows of dbo.Incidents, in commit order
    CallMetrics,         \* committed rows of dbo.CallMetrics, in commit order
    identity_seq,        \* next store-generated identity of each table
    \* ---- prototype agent: one call ----
    proto_pc,            \* position of the prototype entrypoint and turn loop
    proto_turn,          \* turns finished (answered or dropped)
    last_call            \* the adapter call made last: arguments, outcome, result

agentVars == <<pc, messages_exchanged, emergency_type, is_escalated, events,
               greeting, heard, assistant_seen, turns>>

apiVars == <<LIVEKIT_URL, LIVEKIT_API_KEY, LIVEKIT_API_SECRET, api_state,
             last_request, last_response, token_log>>

dbVars == <<invocations, connections, Incidents, CallMetrics, identity_seq>>

protoVars == <<proto_pc, proto_turn, last_call>>

vars == <<agentVars, apiVars, dbVars, protoVars>>

\* the variables of the components other than the production agent
notAgentVars == <<apiVars, dbVars, protoVars>>

\* the variables of the components other than the HTTP API
notApiVars == <<agentVars, dbVars, protoVars>>

\* the variables of the components other than the persistence module
notDbVars == <<agentVars, apiVars, protoVars>>

\* the variables of the components other than the prototype agent
notProtoVars == <<agentVars, apiVars, dbVars>>

-----------------------------------------------------------------------------
(* Bounds *)

\* callbacks the turn loop delivers in one call
MaxTurns == 3

\* concurrent invocations of the persistence module
NumInvocations == 2

\* frames in one audio buffer
MaxFrames == 2

\* text segments in one synthesis request
MaxSegments == 2

\* turns of one prototype call
MaxProtoTurns == 2

-----------------------------------------------------------------------------
(* Text helpers *)

None == "None"

UpperAlpha == <<"A","B","C","D","E","F","G","H","I","J","K","L","M",
                "N","O","P","Q","R","S","T","U","V","W","X","Y","Z">>
LowerAlpha == <<"a","b","c","d","e","f","g","h","i","j","k","l","m",
                "n","o","p","q","r","s","t","u","v","w","x","y","z">>

\* str.lower() on one character
LowerChar(c) ==
    IF \E i \in 1..Len(UpperAlpha) : UpperAlpha[i] = c
    THEN LowerAlpha[CHOOSE i \in 1..Len(UpperAlpha) : UpperAlpha[i] = c]
    ELSE c

\* str.lower()
ToLower(s) == [i \in 1..Len(s) |-> LowerChar(s[i])]

\* Python's `kw in s` on strings
Contains(s, kw) ==
    \E i \in 1..(Len(s) - Len(kw) + 1) : SubSeq(s, i, i + Len(kw) - 1) = kw

\* the keyword list of on_caller_message
CRITICAL_KEYWORDS ==
    { <<"h","e","a","r","t">>,
      <<"c","h","e","s","t"," ","p","a","i","n">>,
      <<"c","a","n","'","t"," ","b","r","e","a","t","h","e">>,
      <<"c","h","o","k","i","n","g">> }

\* the condition of on_caller_message without lower-casing the text
IsCriticalCaseSensitive(text) ==
    \E keyword \in CRITICAL_KEYWORDS : Contains(text, keyword)

\* any(keyword in text.lower() for keyword in [...])
IsCritical(text) ==
    \E keyword \in CRITICAL_KEYWORDS : Contains(ToLower(text), keyword)

\* caller utterances the pipeline may deliver
CallerTexts ==
    { <<"H","e","a","r","t">>,
      <<"s","w","e","e","t","h","e","a","r","t">>,
      <<"C","H","E","S","T"," ","P","A","I","N">>,
      <<"I"," ","c","a","n","'","t"," ","b","r","e","a","t","h","e">>,
      <<"h","e"," ","i","s"," ","C","h","o","k","i","n","g","!">>,
      <<"h","e","a","r"," ","t">>,
      <<"c","h","e","s","t","p","a","i","n">>,
      <<"c","a","n","t"," ","b","r","e","a","t","h","e">>,
      <<"h","e","l","p">> }

\* msg.text of a UserMessage: a caller utterance, the empty string, or None
HumanTexts == { [has |-> TRUE, text |-> t] : t \in CallerTexts \cup {<<>>} }
              \cup { [has |-> FALSE, text |-> <<>>] }

\* ChatMessage values the pipeline may hand to on_message
ChatRoles == {"assistant", "user", "system"}
ChatContents == { <<"O","k">>, <<"W","h","e","r","e","?">> }

-----------------------------------------------------------------------------
(* Production agent: EmergencyCallHandler *)

\* log_call_event: append one record to the log
log_call_event(log, event_type, data) ==
    Append(log, [type |-> event_type, data |-> data])

\* on_agent_response(text)
on_agent_response(text) ==
    /\ messages_exchanged' = messages_exchanged + 1
    /\ events' = log_call_event(events, "agent_response",
                    [message_count |-> messages_exchanged + 1,
                     text_length |-> Len(text)])
    /\ UNCHANGED <<emergency_type, is_escalated>>

\* on_caller_message with the flag assigned from the current text only
on_caller_message_reset(text) ==
    LET hit == IsCritical(text)
        etype == IF hit THEN "CRITICAL_MEDICAL" ELSE None
        log1 == IF hit
                THEN log_call_event(events, "escalation", [type |-> etype])
                ELSE events
    IN  /\ emergency_type' = etype
        /\ is_escalated' = hit
        /\ events' = log_call_event(log1, "caller_message",
                        [text_length |-> Len(text), escalated |-> hit])
        /\ UNCHANGED messages_exchanged

\* on_caller_message(text)
on_caller_message(text) ==
    LET hit == IsCritical(text)
        etype == IF hit THEN "CRITICAL_MEDICAL" ELSE emergency_type
        esc == IF hit THEN TRUE ELSE is_escalated
        log1 == IF hit
                THEN log_call_event(events, "escalation", [type |-> etype])
                ELSE events
    IN  /\ emergency_type' = etype
        /\ is_escalated' = esc
        /\ events' = log_call_event(log1, "caller_message",
                        [text_length |-> Len(text), escalated |-> esc])
        /\ UNCHANGED messages_exchanged

-----------------------------------------------------------------------------
(* Production agent: entrypoint *)

\* EmergencyCallHandler.__init__, before the try block of entrypoint
InitAgent ==
    /\ pc = "init"
    /\ messages_exchanged = 0
    /\ emergency_type = None
    /\ is_escalated = FALSE
    /\ events = <<>>
    /\ greeting = "none"
    /\ heard = <<>>
    /\ assistant_seen = 0
    /\ turns = 0

\* try: build the chat context and the VoicePipelineAgent; except: log, raise
InitComponents ==
    /\ pc = "init"
    /\ \E ok \in BOOLEAN :
          pc' = IF ok THEN "greeting" ELSE "raised_init"
    /\ UNCHANGED <<messages_exchanged, emergency_type, is_escalated, events,
                   greeting, heard, assistant_seen, turns>>
    /\ UNCHANGED notAgentVars

\* agent.say with a failure propagating out of entrypoint
GreetingUnguarded ==
    /\ pc = "greeting"
    /\ \E ok \in BOOLEAN :
          /\ greeting' = IF ok THEN "spoken" ELSE "failed"
          /\ pc' = IF ok THEN "call_start" ELSE "raised_greeting"
    /\ UNCHANGED <<messages_exchanged, emergency_type, is_escalated, events,
                   heard, assistant_seen, turns>>
    /\ UNCHANGED notAgentVars

\* try: await agent.say(initial_greeting); except: log only
Greeting ==
    /\ pc = "greeting"
    /\ \E ok \in BOOLEAN :
          greeting' = IF ok THEN "spoken" ELSE "failed"
    /\ pc' = "call_start"
    /\ UNCHANGED <<messages_exchanged, emergency_type, is_escalated, events,
                   heard, assistant_seen, turns>>
    /\ UNCHANGED notAgentVars

\* log_call_event("call_start", ...)
LogCallStart ==
    /\ pc = "call_start"
    /\ events' = log_call_event(events, "call_start", [agent |-> "EmergencyAgent"])
    /\ pc' = "loop"
    /\ UNCHANGED <<messages_exchanged, emergency_type, is_escalated,
                   greeting, heard, assistant_seen, turns>>
    /\ UNCHANGED notAgentVars

\* the on_message observer without the test of msg.role
on_message_any_role ==
    /\ pc = "loop"
    /\ turns < MaxTurns
    /\ \E role \in ChatRoles, content \in ChatContents :
          /\ on_agent_response(content)
          /\ assistant_seen' = IF role = "assistant"
                               THEN assistant_seen + 1 ELSE assistant_seen
    /\ turns' = turns + 1
    /\ UNCHANGED <<pc, greeting, heard>>
    /\ UNCHANGED notAgentVars

\* the on_message observer, called by the turn loop (agent.start)
on_message ==
    /\ pc = "loop"
    /\ turns < MaxTurns
    /\ \E role \in ChatRoles, content \in ChatContents :
          /\ IF role = "assistant"
             THEN on_agent_response(content)
             ELSE UNCHANGED <<messages_exchanged, emergency_type,
                              is_escalated, events>>
          /\ assistant_seen' = IF role = "assistant"
                               THEN assistant_seen + 1 ELSE assistant_seen
    /\ turns' = turns + 1
    /\ UNCHANGED <<pc, greeting, heard>>
    /\ UNCHANGED notAgentVars

\* the on_human_message observer, called by the turn loop (agent.start)
on_human_message ==
    /\ pc = "loop"
    /\ turns < MaxTurns
    /\ \E msg \in HumanTexts :
          IF msg.has /\ msg.text # <<>>
          THEN /\ on_caller_message(msg.text)
               /\ heard' = Append(heard, msg.text)
          ELSE UNCHANGED <<messages_exchanged, emergency_type,
                           is_escalated, events, heard>>
    /\ turns' = turns + 1
    /\ UNCHANGED <<pc, greeting, assistant_seen>>
    /\ UNCHANGED notAgentVars

\* await agent.start(...) returns: the call has ended
LoopReturns ==
    /\ pc = "loop"
    /\ pc' = "call_end"
    /\ UNCHANGED <<messages_exchanged, emergency_type, is_escalated, events,
                   greeting, heard, assistant_seen, turns>>
    /\ UNCHANGED notAgentVars

\* await agent.start(...) raises: the exception leaves entrypoint
LoopRaises ==
    /\ pc = "loop"
    /\ pc' = "raised_loop"
    /\ UNCHANGED <<messages_exchanged, emergency_type, is_escalated, events,
                   greeting, heard, assistant_seen, turns>>
    /\ UNCHANGED notAgentVars

\* log_call_event("call_end", ...) and the final logger.info
LogCallEnd ==
    /\ pc = "call_end"
    /\ events' = log_call_event(events, "call_end",
                    [messages_exchanged |-> messages_exchanged,
                     escalated |-> is_escalated,
                     emergency_type |-> emergency_type])
    /\ pc' = "done"
    /\ UNCHANGED <<messages_exchanged, emergency_type, is_escalated,
                   greeting, heard, assistant_seen, turns>>
    /\ UNCHANGED notAgentVars

-----------------------------------------------------------------------------
(* Token HTTP API (backend-api.py) *)

\* Python truthiness of a value that is None or a string
Truthy(v) == v # None /\ v # ""

NoToken == <<>>

\* values of the environment at process start
UrlValues == {None, "", "wss://livekit.example"}
KeyValues == {None, "api-key"}
SecretValues == {None, "api-secret"}

\* JSON values of the "identity" and "room" members; None stands for a member
\* that is absent or null (data.get returns None for both)
IdentityValues == {None, "", "caller-1", "caller-2"}
RoomValues == {None, "", "room-9", "room-7"}

\* POST /api/get-token requests: no JSON body, the JSON literal null, or an object
TokenRequests ==
    { [op |-> "get_token", body |-> "absent", identity |-> None, room |-> None],
      [op |-> "get_token", body |-> "null", identity |-> None, room |-> None] }
    \cup { [op |-> "get_token", body |-> "object", identity |-> i, room |-> r] :
             i \in IdentityValues, r \in RoomValues }

NoRequest == [op |-> "none", body |-> "absent", identity |-> None, room |-> None]

Response(status, error, token, url, room, configured) ==
    [status |-> status, error |-> error, token |-> token, url |-> url,
     room |-> room, livekit_configured |-> configured]

NoResponse == Response(0, None, NoToken, None, None, FALSE)

\* request.json: the parsed object, None, or an exception raised by the
\* framework when the request carries no JSON body (framework dependent)
RequestJson(req) ==
    CASE req.body = "object" -> {"dict"}
      [] req.body = "null"   -> {"none"}
      [] OTHER               -> {"none", "raise"}

\* api.AccessToken(key, secret).with_identity(..).with_grants(room=..).to_jwt()
to_jwt(key, secret, identity, room) ==
    <<"HS256", key, secret, identity, room>>

\* the module-level environment check written with any() instead of all()
StartupAnyConfigured ==
    /\ api_state = "boot"
    /\ api_state' = IF \/ Truthy(LIVEKIT_URL)
                       \/ Truthy(LIVEKIT_API_KEY)
                       \/ Truthy(LIVEKIT_API_SECRET)
                    THEN "running" ELSE "aborted"
    /\ UNCHANGED <<LIVEKIT_URL, LIVEKIT_API_KEY, LIVEKIT_API_SECRET,
                   last_request, last_response, token_log>>
    /\ UNCHANGED notApiVars

\* if not all([LIVEKIT_URL, LIVEKIT_API_KEY, LIVEKIT_API_SECRET]): raise ValueError
Startup ==
    /\ api_state = "boot"
    /\ api_state' = IF /\ Truthy(LIVEKIT_URL)
                       /\ Truthy(LIVEKIT_API_KEY)
                       /\ Truthy(LIVEKIT_API_SECRET)
                    THEN "running" ELSE "aborted"
    /\ UNCHANGED <<LIVEKIT_URL, LIVEKIT_API_KEY, LIVEKIT_API_SECRET,
                   last_request, last_response, token_log>>
    /\ UNCHANGED notApiVars

\* jsonify({"status": "ok", "timestamp": ..., "livekit_configured": ...}), 200
HealthResponse(configured) ==
    [status |-> 200, body_status |-> "ok", error |-> None, token |-> NoToken,
     url |-> None, room |-> None, livekit_configured |-> configured]

\* GET /health
health ==
    /\ api_state = "running"
    /\ last_request' = [NoRequest EXCEPT !.op = "health"]
    /\ last_response' = HealthResponse(Truthy(LIVEKIT_URL))
    /\ UNCHANGED <<LIVEKIT_URL, LIVEKIT_API_KEY, LIVEKIT_API_SECRET,
                   api_state, token_log>>
    /\ UNCHANGED notApiVars

\* POST /api/get-token
get_token ==
    /\ api_state = "running"
    /\ \E req \in TokenRequests, data \in {"dict", "none", "raise"} :
          /\ data \in RequestJson(req)
          /\ last_request' = req
          /\ IF data = "raise"
             THEN \* request.json raised: except Exception -> 500
                  /\ last_response' = Response(500, "request has no JSON body",
                                               NoToken, None, None, FALSE)
                  /\ UNCHANGED token_log
             ELSE IF data = "none"
             THEN \* data.get on None raises AttributeError -> 500
                  /\ last_response' =
                        Response(500, "'NoneType' object has no attribute 'get'",
                                 NoToken, None, None, FALSE)
                  /\ UNCHANGED token_log
             ELSE IF ~Truthy(req.identity) \/ ~Truthy(req.room)
             THEN /\ last_response' = Response(400, "Missing identity or room",
                                               NoToken, None, None, FALSE)
                  /\ UNCHANGED token_log
             ELSE /\ last_response' =
                        Response(200, None,
                                 to_jwt(LIVEKIT_API_KEY, LIVEKIT_API_SECRET,
                                        req.identity, req.room),
                                 LIVEKIT_URL, req.room, FALSE)
                  /\ token_log' = token_log \cup {<<req.identity, req.room>>}
    /\ UNCHANGED <<LIVEKIT_URL, LIVEKIT_API_KEY, LIVEKIT_API_SECRET, api_state>>
    /\ UNCHANGED notApiVars

\* the API process before it is started, with a complete environment
ApiIdle ==
    /\ LIVEKIT_URL = "wss://livekit.example"
    /\ LIVEKIT_API_KEY = "api-key"
    /\ LIVEKIT_API_SECRET = "api-secret"
    /\ api_state = "boot"
    /\ last_request = NoRequest
    /\ last_response = NoResponse
    /\ token_log = {}

\* the API process at import time, with any environment
InitApiProcess ==
    /\ LIVEKIT_URL \in UrlValues
    /\ LIVEKIT_API_KEY \in KeyValues
    /\ LIVEKIT_API_SECRET \in SecretValues
    /\ api_state = "boot"
    /\ last_request = NoRequest
    /\ last_response = NoResponse
    /\ token_log = {}

-----------------------------------------------------------------------------
(* Incident persistence module (db_mssql.py) and the store it writes to *)

\* Python values of the optional and numeric fields
PyNone == [tag |-> "None"]
PyInt(n) == [tag |-> "int", v |-> n]

\* SQL parameter / column values
SqlNull == [tag |-> "NULL"]
SqlInt(n) == [tag |-> "INT", v |-> n]
SqlFloat(n) == [tag |-> "FLOAT", v |-> n]

Invocation == 1..NumInvocations

\* Metrics values handed to write_call_metrics (call_id is the invocation's)
MetricsInputs ==
    { [started_at_unix |-> PyInt(5), ended_at_unix |-> e,
       incident_created |-> f, incident_id |-> i] :
          f \in BOOLEAN,
          <<i, e>> \in { <<PyNone, PyInt(0)>>,
                          <<PyInt(0), PyNone>>,
                          <<PyInt(7), PyInt(9)>> } }

\* CallInfo values handed to create_incident: confidence.overall in tenths
IncidentInputs ==
    { [call_type |-> "medical", confidence_overall |-> c] :
          c \in {PyNone, PyInt(8)} }

NoInput == [call_type |-> "none"]

\* an invocation that has not been made yet
NotInvoked ==
    [op |-> "none", input |-> NoInput, pc |-> "idle", cnxn |-> 0,
     log |-> <<>>, result |-> PyNone, committed |-> 0]

NoConnection == [pending |-> <<>>, scope_identity |-> SqlNull]

\* one connection for the whole process, whichever invocation asks
connect_shared(p) == 1

\* connect_mssql: pyodbc.connect gives every invocation a connection of its own
connect_mssql(p) == p

\* the parameters of write_call_metrics, testing incident_id and ended_at_unix
\* for truth instead of `is not None`
MetricsRowTruthiness(call_id, metrics) ==
    [table |-> "CallMetrics",
     call_id |-> call_id,
     started_at_unix |-> SqlFloat(metrics.started_at_unix.v),
     ended_at_unix |->
        IF metrics.ended_at_unix # PyNone /\ metrics.ended_at_unix.v # 0
        THEN SqlFloat(metrics.ended_at_unix.v) ELSE SqlNull,
     incident_created |-> IF metrics.incident_created THEN 1 ELSE 0,
     incident_id |->
        IF metrics.incident_id # PyNone /\ metrics.incident_id.v # 0
        THEN SqlInt(metrics.incident_id.v) ELSE SqlNull]

\* the parameters of the INSERT of write_call_metrics (the five turn and
\* count columns pass through int() and are left out)
MetricsRow(call_id, metrics) ==
    [table |-> "CallMetrics",
     call_id |-> call_id,
     started_at_unix |-> SqlFloat(metrics.started_at_unix.v),
     ended_at_unix |->
        IF metrics.ended_at_unix # PyNone
        THEN SqlFloat(metrics.ended_at_unix.v) ELSE SqlNull,
     incident_created |-> IF metrics.incident_created THEN 1 ELSE 0,
     incident_id |->
        IF metrics.incident_id # PyNone
        THEN SqlInt(metrics.incident_id.v) ELSE SqlNull]

\* the parameters of the INSERT of create_incident
IncidentRow(call_id, info) ==
    [table |-> "Incidents",
     call_id |-> call_id,
     call_type |-> info.call_type,
     confidence_overall |->
        IF info.confidence_overall # PyNone /\ info.confidence_overall.v # 0
        THEN SqlFloat(info.confidence_overall.v) ELSE SqlFloat(0)]

\* the latest identity generated for the table by any session
IdentCurrent(c) ==
    IF identity_seq.Incidents = 1 THEN SqlNull
    ELSE SqlInt(identity_seq.Incidents - 1)

\* SCOPE_IDENTITY(): the last identity generated on this connection
ScopeIdentity(c) == connections[c].scope_identity

\* a caller invokes create_incident or write_call_metrics
Invoke(p) ==
    /\ invocations[p].pc = "idle"
    /\ \/ \E info \in IncidentInputs :
             invocations' = [invocations EXCEPT ![p] =
                 [@ EXCEPT !.op = "create_incident", !.input = info,
                           !.pc = "connect"]]
       \/ \E metrics \in MetricsInputs :
             invocations' = [invocations EXCEPT ![p] =
                 [@ EXCEPT !.op = "write_call_metrics", !.input = metrics,
                           !.pc = "connect"]]
    /\ UNCHANGED <<connections, Incidents, CallMetrics, identity_seq>>
    /\ UNCHANGED notDbVars

\* with connect_mssql(conn_str) as cnxn: cur = cnxn.cursor()
Connect(p) ==
    /\ invocations[p].pc = "connect"
    /\ LET c == connect_mssql(p)
       IN  invocations' = [invocations EXCEPT ![p] =
               [@ EXCEPT !.cnxn = c, !.pc = "insert",
                         !.log = Append(@, <<"connect", c>>)]]
    /\ UNCHANGED <<connections, Incidents, CallMetrics, identity_seq>>
    /\ UNCHANGED notDbVars

\* cur.execute("INSERT INTO ...", ...): the store generates the identity and
\* holds the row in the connection's open transaction
Insert(p) ==
    /\ invocations[p].pc = "insert"
    /\ LET c == invocations[p].cnxn
           table == IF invocations[p].op = "create_incident"
                    THEN "Incidents" ELSE "CallMetrics"
           id == identity_seq[table]
           params == IF invocations[p].op = "create_incident"
                     THEN IncidentRow(p, invocations[p].input)
                     ELSE MetricsRow(p, invocations[p].input)
           row == [id |-> id, by |-> p, cols |-> params]
       IN  /\ connections' = [connections EXCEPT ![c] =
                   [pending |-> Append(@.pending, row),
                    scope_identity |-> SqlInt(id)]]
           /\ identity_seq' = [identity_seq EXCEPT ![table] = id + 1]
           /\ invocations' = [invocations EXCEPT ![p] =
                   [@ EXCEPT !.pc = "commit",
                             !.log = Append(@, <<"insert", c>>)]]
    /\ UNCHANGED <<Incidents, CallMetrics>>
    /\ UNCHANGED notDbVars

RowsOf(rows, table) == SelectSeq(rows, LAMBDA r : r.cols.table = table)

\* cnxn.commit(): the connection's open transaction becomes durable; then
\* write_call_metrics leaves its with block and returns None
Commit(p) ==
    /\ invocations[p].pc = "commit"
    /\ LET c == invocations[p].cnxn
           rows == connections[c].pending
       IN  /\ Incidents' = Incidents \o RowsOf(rows, "Incidents")
           /\ CallMetrics' = CallMetrics \o RowsOf(rows, "CallMetrics")
           /\ connections' = [connections EXCEPT ![c].pending = <<>>]
           /\ invocations' = [invocations EXCEPT ![p] =
                   [@ EXCEPT !.pc = IF invocations[p].op = "create_incident"
                                    THEN "select" ELSE "returned",
                             !.committed = @ + Len(rows),
                             !.log = Append(@, <<"commit", c>>)]]
    /\ UNCHANGED identity_seq
    /\ UNCHANGED notDbVars

\* cur.execute("SELECT CAST(SCOPE_IDENTITY() AS INT)"); row = cur.fetchone();
\* return int(row[0]).  The store answers NULL when the INSERT ran in a scope
\* of its own (a prepared statement); int(None) then raises TypeError.
SelectIdentity(p) ==
    /\ invocations[p].pc = "select"
    /\ LET c == invocations[p].cnxn
       IN  \E row0 \in {ScopeIdentity(c), SqlNull} :
              invocations' = [invocations EXCEPT ![p] =
                  [@ EXCEPT !.pc = IF row0 = SqlNull THEN "raised" ELSE "returned",
                            !.result = IF row0 = SqlNull THEN PyNone
                                       ELSE PyInt(row0.v),
                            !.log = Append(@, <<"select", c>>)]]
    /\ UNCHANGED <<connections, Incidents, CallMetrics, identity_seq>>
    /\ UNCHANGED notDbVars

\* the persistence module with no invocation made and an empty store
DbIdle ==
    /\ invocations = [p \in Invocation |-> NotInvoked]
    /\ connections = [c \in Invocation |-> NoConnection]
    /\ Incidents = <<>>
    /\ CallMetrics = <<>>
    /\ identity_seq = [Incidents |-> 1, CallMetrics |-> 1]

-----------------------------------------------------------------------------
(* Prototype agent (agent-basic.py): the three adapters *)

\* `if len(audio_bytes) < 100`
MIN_AUDIO_BYTES == 100

\* AudioBuffer(sample_rate=24000, num_channels=1)
SAMPLE_RATE == 24000
NUM_CHANNELS == 1

FALLBACK_REPLY == "I'm having trouble processing that. Can you repeat?"

\* sizes in bytes of frame.data
FrameSizes == {0, 1, 49, 50, 99, 100}

\* sequences over S of length at most n
SeqUpTo(S, n) == UNION { [1..k -> S] : k \in 0..n }

\* buffer.get_frames(): each frame stands for its data, by size
FrameLists == SeqUpTo(FrameSizes, MaxFrames)

\* len(b"".join(frame.data for frame in frames))
RECURSIVE AudioLen(_)
AudioLen(frames) ==
    IF frames = <<>> THEN 0 ELSE Head(frames) + AudioLen(Tail(frames))

\* outcomes of client.audio.transcriptions.create
TranscriptionOutcomes ==
    { [kind |-> "raise", text |-> None],
      [kind |-> "ok", text |-> None],
      [kind |-> "ok", text |-> ""],
      [kind |-> "ok", text |-> "my house is on fire"] }

NoSegment == [kind |-> "None"]
STTSegment(text, confidence, is_final) ==
    [kind |-> "STTSegment", text |-> text, confidence |-> confidence,
     is_final |-> is_final]
Raised == [kind |-> "raised"]

\* arecognize with the length guard written `<=`
arecognize_guard_inclusive(frames, outcome) ==
    IF frames = <<>>
    THEN [api_calls |-> 0, result |-> NoSegment]
    ELSE IF AudioLen(frames) <= MIN_AUDIO_BYTES
    THEN [api_calls |-> 0, result |-> NoSegment]
    ELSE IF outcome.kind = "raise"
    THEN [api_calls |-> 1, result |-> NoSegment]
    ELSE IF Truthy(outcome.text)
    THEN [api_calls |-> 1, result |-> STTSegment(outcome.text, "0.9", TRUE)]
    ELSE [api_calls |-> 1, result |-> NoSegment]

\* GroqSTT.arecognize(buffer): transcription calls made and value returned
arecognize(frames, outcome) ==
    IF frames = <<>>
    THEN [api_calls |-> 0, result |-> NoSegment]
    ELSE IF AudioLen(frames) < MIN_AUDIO_BYTES
    THEN [api_calls |-> 0, result |-> NoSegment]
    ELSE IF outcome.kind = "raise"
    THEN \* except Exception: log, return None
         [api_calls |-> 1, result |-> NoSegment]
    ELSE IF Truthy(outcome.text)
    THEN [api_calls |-> 1, result |-> STTSegment(outcome.text, "0.9", TRUE)]
    ELSE [api_calls |-> 1, result |-> NoSegment]

\* characters removed by str.strip()
Whitespace == {" ", "\t", "\n", "\r"}

\* str.strip()
Strip(s) ==
    LET keep == { i \in 1..Len(s) : s[i] \notin Whitespace }
    IN  IF keep = {} THEN <<>>
        ELSE SubSeq(s, CHOOSE i \in keep : \A j \in keep : i <= j,
                       CHOOSE i \in keep : \A j \in keep : i >= j)

\* texts of the pending segments
SegmentTexts ==
    { <<>>, <<" ">>, <<"\t", "\n">>, <<"H", "i">>, <<" ", "o", "k", " ">> }

\* a segment is an object with a text attribute (a string or None) or a
\* plain value rendered by str()
SegmentValues ==
    { [kind |-> "object", has_text |-> TRUE, text |-> t] : t \in SegmentTexts }
    \cup { [kind |-> "object", has_text |-> FALSE, text |-> <<>>] }
    \cup { [kind |-> "str", has_text |-> TRUE, text |-> t] :
              t \in { <<" ">>, <<"H", "i">> } }

SegmentLists == SeqUpTo(SegmentValues, MaxSegments)

\* "".join(seg.text if hasattr(seg, 'text') else str(seg) for seg in segments)
RECURSIVE JoinText(_)
JoinText(segments) ==
    IF segments = <<>> THEN <<>>
    ELSE Head(segments).text \o JoinText(Tail(segments))

\* outcomes of client.audio.speech.create: failure, or audio of some size
SynthesisOutcomes ==
    { [kind |-> "raise", size |-> 0], [kind |-> "ok", size |-> 0],
      [kind |-> "ok", size |-> 4800] }

AudioBuffer(size, sample_rate, num_channels) ==
    [kind |-> "AudioBuffer", size |-> size, sample_rate |-> sample_rate,
     num_channels |-> num_channels]

\* asynthesizes testing `if not full_text` without strip()
asynthesizes_no_strip(segments, outcome) ==
    IF \E i \in 1..Len(segments) : ~segments[i].has_text
    THEN [api_calls |-> 0, result |-> AudioBuffer(0, SAMPLE_RATE, NUM_CHANNELS)]
    ELSE IF JoinText(segments) = <<>>
    THEN [api_calls |-> 0, result |-> AudioBuffer(0, SAMPLE_RATE, NUM_CHANNELS)]
    ELSE IF outcome.kind = "raise"
    THEN [api_calls |-> 1, result |-> AudioBuffer(0, SAMPLE_RATE, NUM_CHANNELS)]
    ELSE [api_calls |-> 1,
          result |-> AudioBuffer(outcome.size, SAMPLE_RATE, NUM_CHANNELS)]

\* GroqTTS.asynthesizes(segments): synthesis calls made and buffer returned
asynthesizes(segments, outcome) ==
    IF \E i \in 1..Len(segments) : ~segments[i].has_text
    THEN \* join over a None text raises TypeError: except Exception
         [api_calls |-> 0, result |-> AudioBuffer(0, SAMPLE_RATE, NUM_CHANNELS)]
    ELSE IF Strip(JoinText(segments)) = <<>>
    THEN [api_calls |-> 0, result |-> AudioBuffer(0, SAMPLE_RATE, NUM_CHANNELS)]
    ELSE IF outcome.kind = "raise"
    THEN \* except Exception: log, return the empty buffer
         [api_calls |-> 1, result |-> AudioBuffer(0, SAMPLE_RATE, NUM_CHANNELS)]
    ELSE [api_calls |-> 1,
          result |-> AudioBuffer(outcome.size, SAMPLE_RATE, NUM_CHANNELS)]

\* outcomes of client.chat.completions.create: failure, a response without
\* choices, or a response whose first choice has some content
CompletionOutcomes ==
    { [kind |-> "raise", content |-> None],
      [kind |-> "no_choices", content |-> None],
      [kind |-> "ok", content |-> None],
      [kind |-> "ok", content |-> "Where are you located?"] }

LLMMessage(role, content) ==
    [kind |-> "LLMMessage", role |-> role, content |-> content]

\* achat without its try/except
achat_unguarded(messages, outcome) ==
    IF outcome.kind = "ok"
    THEN [api_calls |-> 1, result |-> LLMMessage("assistant", outcome.content)]
    ELSE [api_calls |-> 1, result |-> Raised]

\* EmergencyAgentLLM.achat(messages): completion calls made and message returned
achat(messages, outcome) ==
    IF outcome.kind = "ok"
    THEN [api_calls |-> 1, result |-> LLMMessage("assistant", outcome.content)]
    ELSE \* the call or response.choices[0] raised: except Exception
         [api_calls |-> 1, result |-> LLMMessage("assistant", FALLBACK_REPLY)]

-----------------------------------------------------------------------------
(* Prototype agent: entrypoint and the turn loop of the pipeline *)

Call(adapter, input, outcome, r) ==
    [adapter |-> adapter, input |-> input, outcome |-> outcome,
     api_calls |-> r.api_calls, result |-> r.result]

NoCall == [adapter |-> "none", input |-> <<>>, outcome |-> "none",
           api_calls |-> 0, result |-> NoSegment]

\* an exception leaving an adapter ends the pipeline task, and the call
AfterCall(r, next) == IF r.result = Raised THEN "aborted" ELSE next

\* await agent.say(initial_message): the greeting goes through the TTS adapter
Say ==
    /\ proto_pc = "greeting"
    /\ \E outcome \in SynthesisOutcomes :
          LET segments == << [kind |-> "str", has_text |-> TRUE,
                              text |-> <<"E","m","e","r","g","e","n","c","y">>] >>
              r == asynthesizes(segments, outcome)
          IN  /\ last_call' = Call("tts", segments, outcome.kind, r)
              /\ proto_pc' = AfterCall(r, "listen")
    /\ UNCHANGED proto_turn
    /\ UNCHANGED notProtoVars

\* the pipeline hands a buffer of caller audio to the STT adapter; without a
\* segment the turn is dropped
Listen ==
    /\ proto_pc = "listen"
    /\ proto_turn < MaxProtoTurns
    /\ \E frames \in FrameLists, outcome \in TranscriptionOutcomes :
          LET r == arecognize(frames, outcome)
          IN  /\ last_call' = Call("stt", frames,
                     IF r.api_calls = 0 THEN "none"
                     ELSE IF outcome.kind = "ok" /\ Truthy(outcome.text)
                     THEN "text" ELSE IF outcome.kind = "ok" THEN "empty"
                     ELSE "raise", r)
              /\ proto_pc' = AfterCall(r, IF r.result = NoSegment
                                           THEN "listen" ELSE "think")
              /\ proto_turn' = IF r.result = NoSegment
                               THEN proto_turn + 1 ELSE proto_turn
    /\ UNCHANGED notProtoVars

\* the pipeline asks the LLM adapter for the reply to the history so far
Think ==
    /\ proto_pc = "think"
    /\ \E outcome \in CompletionOutcomes :
          LET messages == proto_turn + 1
              r == achat(messages, outcome)
          IN  /\ last_call' = Call("llm", <<messages>>,
                     IF outcome.kind = "ok" THEN "ok" ELSE "raise", r)
              /\ proto_pc' = AfterCall(r, "speak")
    /\ UNCHANGED proto_turn
    /\ UNCHANGED notProtoVars

\* the pipeline hands the reply's text segments to the TTS adapter
Speak ==
    /\ proto_pc = "speak"
    /\ \E segments \in SegmentLists, outcome \in SynthesisOutcomes :
          LET r == asynthesizes(segments, outcome)
          IN  /\ last_call' = Call("tts", segments,
                     IF r.api_calls = 0 THEN "none" ELSE outcome.kind, r)
              /\ proto_pc' = AfterCall(r, "listen")
    /\ proto_turn' = proto_turn + 1
    /\ UNCHANGED notProtoVars

\* await agent.start(...) returns: the call has ended
EndCall ==
    /\ proto_pc = "listen"
    /\ proto_pc' = "ended"
    /\ UNCHANGED <<proto_turn, last_call>>
    /\ UNCHANGED notProtoVars

\* the prototype entrypoint after the adapters and the pipeline are built
ProtoIdle ==
    /\ proto_pc = "greeting"
    /\ proto_turn = 0
    /\ last_call = NoCall

-----------------------------------------------------------------------------
(* Specifications *)

Init == InitAgent /\ ApiIdle /\ DbIdle /\ ProtoIdle

Next ==
    \/ InitComponents
    \/ Greeting
    \/ LogCallStart
    \/ on_message
    \/ on_human_message
    \/ LoopReturns
    \/ LoopRaises
    \/ LogCallEnd

Spec == Init /\ [][Next]_vars

InitApi == InitApiProcess /\ InitAgent /\ DbIdle /\ ProtoIdle

NextApi ==
    \/ Startup
    \/ health
    \/ get_token

SpecApi == InitApi /\ [][NextApi]_vars

InitDb == DbIdle /\ InitAgent /\ ApiIdle /\ ProtoIdle

NextDb ==
    \E p \in Invocation :
        \/ Invoke(p)
        \/ Connect(p)
        \/ Insert(p)
        \/ Commit(p)
        \/ SelectIdentity(p)

SpecDb == InitDb /\ [][NextDb]_vars

InitProto == ProtoIdle /\ InitAgent /\ ApiIdle /\ DbIdle

NextProto ==
    \/ Say
    \/ Listen
    \/ Think
    \/ Speak
    \/ EndCall

SpecProto == InitProto /\ [][NextProto]_vars

\* every invocation runs on a task of its own that is never starved
FairSpecDb ==
    /\ SpecDb
    /\ \A p \in Invocation :
          WF_vars(Connect(p) \/ Insert(p) \/ Commit(p) \/ SelectIdentity(p))

-----------------------------------------------------------------------------
(* Production agent: properties *)

\* C1: on a fresh handler, the first caller message handled by
\* on_caller_message sets is_escalated and emergency_type = "CRITICAL_MEDICAL"
\* when its lower-cased text contains "heart", "chest pain", "can't breathe"
\* or "choking", and leaves is_escalated false and emergency_type None when
\* it contains none of them.
C1_KeywordEscalation ==
    Len(heard) = 1 =>
        LET low == ToLower(heard[1])
            crit == \/ Contains(low, <<"h","e","a","r","t">>)
                    \/ Contains(low, <<"c","h","e","s","t"," ","p","a","i","n">>)
                    \/ Contains(low, <<"c","a","n","'","t"," ","b","r","e","a","t","h","e">>)
                    \/ Contains(low, <<"c","h","o","k","i","n","g">>)
        IN  IF crit
            THEN is_escalated /\ emergency_type = "CRITICAL_MEDICAL"
            ELSE ~is_escalated /\ emergency_type = None

\* an upper-case "CHEST PAIN" was the first caller message and escalated the call
C1_Witness ==
    /\ Len(heard) = 1
    /\ heard[1] = <<"C","H","E","S","T"," ","P","A","I","N">>
    /\ is_escalated
    /\ emergency_type = "CRITICAL_MEDICAL"

\* C2: escalation is monotonic: once is_escalated is true, every later step of
\* the call (caller message, matching or not, or assistant message) leaves it
\* true and leaves emergency_type at "CRITICAL_MEDICAL".
C2_EscalationMonotonic ==
    [][is_escalated =>
         /\ emergency_type = "CRITICAL_MEDICAL"
         /\ is_escalated'
         /\ emergency_type' = "CRITICAL_MEDICAL"]_vars

\* escalated by the first message, then a non-matching caller message and an
\* assistant message were handled, and the call is still escalated
C2_Witness ==
    /\ Len(heard) = 2
    /\ heard[1] = <<"H","e","a","r","t">>
    /\ heard[2] = <<"h","e","l","p">>
    /\ assistant_seen = 1
    /\ Len(events) > 0
    /\ events[Len(events)].type = "agent_response"
    /\ is_escalated

\* C10: a failure while constructing the pipeline is re-raised and aborts the
\* call before any greeting, call_start event or turn; a failure of the
\* opening greeting is swallowed: the call goes on to log call_start, run the
\* turn loop and, when the loop returns, log call_end.
C10_SetupAbortsGreetingSwallowed ==
    /\ [](pc = "raised_init" =>
             events = <<>> /\ greeting = "none" /\ turns = 0)
    /\ [][pc = "raised_init" => pc' = "raised_init"]_vars
    /\ [][pc = "greeting" => pc' = "call_start"]_vars
    /\ [](greeting = "failed" =>
             /\ pc \in {"call_start", "loop", "call_end", "done", "raised_loop"}
             /\ pc \in {"loop", "call_end", "done"} =>
                    Len(events) > 0 /\ events[1].type = "call_start"
             /\ pc = "done" => events[Len(events)].type = "call_end")

\* the greeting failed and the call still ran turns and logged call_end
C10_Witness ==
    /\ greeting = "failed"
    /\ pc = "done"
    /\ turns > 0
    /\ events[1].type = "call_start"
    /\ events[Len(events)].type = "call_end"

\* C12 as stated: the events of a call are call_start, then those of the
\* turn loop, then call_end; messages_exchanged goes up by exactly one on
\* every assistant utterance and is unchanged by caller utterances, so
\* call_end reports messages_exchanged equal to the assistant messages
\* observed and escalated equal to whether any caller message matched a
\* critical keyword; and every call whose turn loop has ended, normally or by
\* an error, has logged call_end once entrypoint is left.
C12_CallEndAlwaysLogged ==
    /\ messages_exchanged = assistant_seen
    /\ Len(events) > 0 => events[1].type = "call_start"
    /\ \A i \in 1..Len(events) :
          /\ events[i].type = "call_start" => i = 1
          /\ events[i].type = "call_end" => i = Len(events) /\ pc = "done"
    /\ pc \in {"done", "raised_loop"} =>
          /\ Len(events) > 0
          /\ events[Len(events)].type = "call_end"
          /\ events[Len(events)].data.messages_exchanged = assistant_seen

\* C12, amended: the events of a call are call_start, then those of the turn
\* loop, then call_end; messages_exchanged goes up by exactly one on every
\* assistant utterance and is unchanged by caller utterances, so call_end
\* reports messages_exchanged equal to the assistant messages observed and
\* escalated equal to whether any caller message matched a critical keyword;
\* every call whose turn loop returns normally logs call_end, and a call whose
\* turn loop ends by an error leaves entrypoint without a call_end event.
C12_CallLifecycle ==
    /\ [](messages_exchanged = assistant_seen)
    /\ [][ /\ (assistant_seen' = assistant_seen + 1) =>
                (messages_exchanged' = messages_exchanged + 1)
           /\ (assistant_seen' = assistant_seen) =>
                (messages_exchanged' = messages_exchanged)
           /\ (pc = "call_end") => (pc' = "done") ]_vars
    /\ [](Len(events) > 0 => events[1].type = "call_start")
    /\ [](\A i \in 1..Len(events) :
             /\ events[i].type = "call_start" => i = 1
             /\ events[i].type = "call_end" => i = Len(events) /\ pc = "done"
             /\ events[i].type \in {"agent_response", "caller_message",
                                    "escalation"} => i > 1)
    /\ [](pc = "done" =>
             LET e == events[Len(events)]
                 matched ==
                    \E k \in 1..Len(heard) :
                       LET low == ToLower(heard[k])
                       IN  \/ Contains(low, <<"h","e","a","r","t">>)
                           \/ Contains(low, <<"c","h","e","s","t"," ","p","a","i","n">>)
                           \/ Contains(low, <<"c","a","n","'","t"," ","b","r","e","a","t","h","e">>)
                           \/ Contains(low, <<"c","h","o","k","i","n","g">>)
             IN  /\ e.type = "call_end"
                 /\ e.data.messages_exchanged = assistant_seen
                 /\ e.data.escalated = matched)
    /\ [](pc = "raised_loop" =>
             \A i \in 1..Len(events) : events[i].type # "call_end")

\* a call with one assistant message and a matching caller message ended
\* normally and logged call_end with messages_exchanged 1 and escalated true
C12_Witness ==
    /\ pc = "done"
    /\ assistant_seen = 1
    /\ Len(heard) >= 1
    /\ heard[1] = <<"h","e"," ","i","s"," ","C","h","o","k","i","n","g","!">>
    /\ events[1].type = "call_start"
    /\ events[Len(events)].type = "call_end"
    /\ events[Len(events)].data.messages_exchanged = 1
    /\ events[Len(events)].data.escalated

-----------------------------------------------------------------------------
(* Token HTTP API: properties *)

\* C3: POST /api/get-token answers 400 {error: "Missing identity or room"} and
\* issues no token whenever identity or room is missing (absent or empty
\* value, or no JSON body at all), and answers 200 with a non-empty token, the
\* platform URL and the room echoed unchanged whenever both are present.
C3_TokenValidation ==
    last_request.op = "get_token" =>
        IF \/ last_request.body # "object"
           \/ last_request.identity \in {None, ""}
           \/ last_request.room \in {None, ""}
        THEN /\ last_response.status = 400
             /\ last_response.error = "Missing identity or room"
             /\ last_response.token = NoToken
        ELSE /\ last_response.status = 200
             /\ last_response.token # NoToken
             /\ last_response.url = LIVEKIT_URL
             /\ last_response.room = last_request.room

\* C11: GET /health answers 200 with status "ok" and livekit_configured equal
\* to whether the platform URL is configured; the service answers requests
\* only after a startup that found the platform URL, the API key and the API
\* secret all present, so every health response it gives has
\* livekit_configured true.
C11_HealthReportsConfigured ==
    /\ last_request.op = "health" =>
          /\ last_response.status = 200
          /\ last_response.body_status = "ok"
          /\ last_response.livekit_configured = (LIVEKIT_URL \notin {None, ""})
          /\ last_response.livekit_configured
    /\ api_state = "running" =>
          /\ LIVEKIT_URL \notin {None, ""}
          /\ LIVEKIT_API_KEY \notin {None, ""}
          /\ LIVEKIT_API_SECRET \notin {None, ""}
    /\ ( \/ LIVEKIT_URL \in {None, ""}
         \/ LIVEKIT_API_KEY \in {None, ""}
         \/ LIVEKIT_API_SECRET \in {None, ""} ) =>
          /\ api_state \in {"boot", "aborted"}
          /\ last_request = NoRequest

\* the started service answered a health request
C11_Witness ==
    /\ api_state = "running"
    /\ last_request.op = "health"
    /\ last_response.status = 200
    /\ last_response.livekit_configured

-----------------------------------------------------------------------------
(* Incident persistence module: properties *)

\* C4: every invocation of create_incident that returns has performed, in this
\* order and on one connection opened for it and used by no other invocation,
\* one INSERT, one commit and one read of the generated identity, and returns
\* the integer identity of the one Incidents row that this invocation
\* inserted, whatever other invocations do concurrently.
C4_CreateIncidentReturnsOwnIdentity ==
    \A p \in Invocation :
        (invocations[p].op = "create_incident" /\ invocations[p].pc = "returned") =>
            LET c == invocations[p].cnxn
                mine == SelectSeq(Incidents, LAMBDA r : r.cols.call_id = p)
            IN  /\ invocations[p].log = << <<"connect", c>>, <<"insert", c>>,
                                           <<"commit", c>>, <<"select", c>> >>
                /\ \A q \in Invocation \ {p} :
                      \A i \in 1..Len(invocations[q].log) :
                          invocations[q].log[i][2] # c
                /\ Len(mine) = 1
                /\ mine[1].by = p
                /\ invocations[p].result = PyInt(mine[1].id)

\* two interleaved create_incident invocations both returned: the one that
\* inserted later committed first, and each returned its own identity
C4_Witness ==
    /\ \A p \in {1, 2} :
          /\ invocations[p].op = "create_incident"
          /\ invocations[p].pc = "returned"
    /\ Len(Incidents) >= 2
    /\ Incidents[1].id > Incidents[2].id
    /\ invocations[1].result # invocations[2].result

\* C5: write_call_metrics inserts exactly one CallMetrics row; its
\* incident_created is 1 when the input flag is true and 0 when it is false;
\* its incident_id (and ended_at_unix) is NULL exactly when the input field is
\* None, never 0 for an unset field, and an input incident_id of 0 is stored
\* as 0.
C5_MetricsRowEncoding ==
    \A p \in Invocation :
        (invocations[p].op = "write_call_metrics" /\ invocations[p].pc = "returned") =>
            LET m == invocations[p].input
                mine == SelectSeq(CallMetrics, LAMBDA r : r.cols.call_id = p)
            IN  /\ Len(mine) = 1
                /\ SelectSeq(Incidents, LAMBDA r : r.cols.call_id = p) = <<>>
                /\ m.incident_created => mine[1].cols.incident_created = 1
                /\ ~m.incident_created => mine[1].cols.incident_created = 0
                /\ (m.incident_id = PyNone) <=> (mine[1].cols.incident_id = SqlNull)
                /\ (m.ended_at_unix = PyNone) <=> (mine[1].cols.ended_at_unix = SqlNull)
                /\ (m.incident_id = PyInt(0)) => mine[1].cols.incident_id = SqlInt(0)
                /\ (m.ended_at_unix = PyInt(0)) => mine[1].cols.ended_at_unix = SqlFloat(0)

\* a Metrics value with incident_id 0, no end time and a false flag was written
C5_Witness ==
    \E p \in Invocation :
        /\ invocations[p].op = "write_call_metrics"
        /\ invocations[p].pc = "returned"
        /\ invocations[p].input.incident_id = PyInt(0)
        /\ invocations[p].input.ended_at_unix = PyNone
        /\ ~invocations[p].input.incident_created
        /\ \E i \in 1..Len(CallMetrics) :
              /\ CallMetrics[i].cols.call_id = p
              /\ CallMetrics[i].cols.incident_id = SqlInt(0)
              /\ CallMetrics[i].cols.ended_at_unix = SqlNull
              /\ CallMetrics[i].cols.incident_created = 0

-----------------------------------------------------------------------------
(* Prototype agent: properties *)

\* C7: for an audio buffer whose concatenated frame data is under 100 bytes
\* (a buffer without frames included) arecognize returns no segment and makes
\* no transcription call; for 100 bytes or more it makes exactly one call and
\* returns a final segment with confidence 0.9 exactly when the transcript
\* text is non-empty, and no segment otherwise.
C7_ShortAudioSkipped ==
    last_call.adapter = "stt" =>
        IF AudioLen(last_call.input) < 100
        THEN last_call.api_calls = 0 /\ last_call.result = NoSegment
        ELSE /\ last_call.api_calls = 1
             /\ (last_call.outcome = "text") <=> (last_call.result.kind = "STTSegment")
             /\ last_call.result.kind = "STTSegment" =>
                    /\ last_call.result.confidence = "0.9"
                    /\ last_call.result.is_final
                    /\ last_call.result.text # ""
             /\ last_call.result.kind # "STTSegment" => last_call.result = NoSegment

\* two frames of 50 bytes, exactly 100 bytes together, were transcribed
C7_Witness ==
    /\ last_call.adapter = "stt"
    /\ last_call.input = <<50, 50>>
    /\ last_call.api_calls = 1
    /\ last_call.result.kind = "STTSegment"

\* C8: when the concatenation of the text segments is empty or consists of
\* whitespace only, asynthesizes returns a zero-length 24 kHz mono buffer and
\* makes no synthesis call.
C8_BlankTextSilent ==
    ( /\ last_call.adapter = "tts"
      /\ \A i \in 1..Len(last_call.input) :
            /\ last_call.input[i].has_text
            /\ \A j \in 1..Len(last_call.input[i].text) :
                  last_call.input[i].text[j] \in {" ", "\t", "\n", "\r"} )
    => /\ last_call.api_calls = 0
       /\ last_call.result = [kind |-> "AudioBuffer", size |-> 0,
                              sample_rate |-> 24000, num_channels |-> 1]

\* two segments, a blank and a tab-newline, were synthesized without a call
C8_Witness ==
    /\ last_call.adapter = "tts"
    /\ Len(last_call.input) = 2
    /\ last_call.input[1].text = <<" ">>
    /\ last_call.input[2].text = <<"\t", "\n">>
    /\ last_call.api_calls = 0
    /\ last_call.result.size = 0

\* C9: no adapter raises to the pipeline and the call is never aborted by a
\* failing external call: a failed transcription gives no segment, a failed
\* synthesis gives the empty 24 kHz mono buffer, and a failed chat completion
\* gives the assistant message "I'm having trouble processing that. Can you
\* repeat?".
C9_AdapterFailuresContained ==
    /\ proto_pc # "aborted"
    /\ last_call.result # Raised
    /\ (last_call.adapter = "stt" /\ last_call.outcome = "raise") =>
           last_call.result = NoSegment
    /\ (last_call.adapter = "tts" /\ last_call.outcome = "raise") =>
           last_call.result = [kind |-> "AudioBuffer", size |-> 0,
                               sample_rate |-> 24000, num_channels |-> 1]
    /\ (last_call.adapter = "llm" /\ last_call.outcome = "raise") =>
           last_call.result =
               [kind |-> "LLMMessage", role |-> "assistant",
                content |-> "I'm having trouble processing that. Can you repeat?"]

\* in the second turn of a call the chat completion failed, the fallback
\* message was returned and the pipeline went on to speak it
C9_Witness ==
    /\ proto_turn = 1
    /\ proto_pc = "speak"
    /\ last_call.adapter = "llm"
    /\ last_call.outcome = "raise"
    /\ last_call.result.content = FALLBACK_REPLY

====
